---- MODULE Spec2Model ----
(***************************************************************************)
(* The two NBA dashboards of the repository, src/app.py and                *)
(* src/streamilt.py, as one state machine.  Each is a Streamlit script: a  *)
(* user interaction reruns the whole script, which loads the table         *)
(* (through st.cache_data), reads the three filter widgets, filters,       *)
(* labels, sorts and numbers the rows, and renders the charts.  One        *)
(* action is one such rerun: RerunLoaded or RerunLoadError.                *)
(*                                                                         *)
(* Columns are named by role; the two scripts spell them differently:      *)
(*   role          app.py        streamilt.py                              *)
(*   date          date_game     date                                      *)
(*   year          year_id       year                                      *)
(*   team1         fran_id       team1                                     *)
(*   team2         opp_fran      team2                                     *)
(*   is_playoffs   is_playoffs   is_playoffs                               *)
(*   game_result   game_result   game_result                               *)
(*   score1/2      (unused)      score1 / score2                           *)
(* The game types are named as streamilt.py names them; app.py's radio     *)
(* spells them "Regular Season", "Playoffs", "Both".                       *)
(* Dates are day ordinals in chronological order; the file holds them as   *)
(* text, and a script that sorts the text sorts by TextRank.               *)
(***************************************************************************)
EXTENDS Integers, Sequences, FiniteSets, TLC

\* Bounds of the model.
MaxRows == 2
MaxReads == 2
MaxGames == 80

\* Values the source table is drawn from.
Dates == {1, 2, 3}
Matchups == {<<"A", "B">>, <<"B", "C">>}
Flags == {0, 1}
Codes == {"W", "L"}
ScorePairs == {<<1, 0>>, <<0, 1>>, <<1, 1>>}

\* Markers for a cell of a column the table does not have.
NoInt == 0 - 1
NoStr == "NA"
\* What st.selectbox returns over an empty option list (None).
NoneSel == "None"

\* pd.to_datetime(...).dt.year : the calendar year of a date.
YearOf(d) == (d + 1) \div 2

(***************************************************************************)
(* The source file: readable or not, its columns, its rows.                *)
(*   cols.date    "none": no date column; "iso": dates written YYYY-MM-DD  *)
(*                (the format streamilt.py:21 assumes); "mdy": dates       *)
(*                written M/D/YYYY (the format of nba_all_elo.csv);        *)
(*                "datetime": the column after pd.to_datetime              *)
(*   cols.year    an explicit year column exists                           *)
(*   cols.teams   "pair": the two identifier columns the script names;     *)
(*                "other": two columns whose name contains 'team', not     *)
(*                named team1/team2 (home_team, away_team);                *)
(*                "team1": team1 without team2;                            *)
(*                "none": no column whose name contains 'team'             *)
(*   cols.playoffs "is_playoffs" | "other" (a column whose name contains   *)
(*                'playoff' or 'season') | "none"                          *)
(*   cols.result  a game_result column exists                              *)
(*   cols.scores  "pair": score1 and score2; "other": two other columns    *)
(*                whose name contains 'score'; "none"                      *)
(*   cols.first   the table's first column (read by streamilt.py:117)      *)
(*   cols.pts     pts and opp_pts exist (read by app.py:221)               *)
(***************************************************************************)
Cols(d, y, t, p, r, s, f, x) ==
  [date |-> d, year |-> y, teams |-> t, playoffs |-> p, result |-> r,
   scores |-> s, first |-> f, pts |-> x]

HasDate(c) == c.date # "none"

DateDom(c) == IF HasDate(c) THEN Dates ELSE {NoInt}

\* An explicit year column agrees with the date column when both exist.
YearDom(c, d) ==
  IF ~c.year THEN {NoInt}
  ELSE IF HasDate(c) THEN {YearOf(d)}
  ELSE {YearOf(x) : x \in Dates}

\* A row's team1 and team2 fields hold the values of its two team columns.
TeamDom(c) ==
  IF c.teams = "none" THEN {<<NoStr, NoStr>>}
  ELSE IF c.teams = "team1" THEN {<<m[1], NoStr>> : m \in Matchups}
  ELSE Matchups

FlagDom(c) == IF c.playoffs = "none" THEN {NoInt} ELSE Flags

CodeDom(c) == IF c.result THEN Codes ELSE {NoStr}

ScoreDom(c) == IF c.scores = "none" THEN {<<NoInt, NoInt>>} ELSE ScorePairs

RowDom(c) ==
  UNION { { [date |-> d, year |-> y, team1 |-> m[1], team2 |-> m[2],
             is_playoffs |-> p, game_result |-> r, score1 |-> s[1], score2 |-> s[2]] :
              <<y, m, p, r, s>> \in
                YearDom(c, d) \X TeamDom(c) \X FlagDom(c) \X CodeDom(c) \X ScoreDom(c) } :
          d \in DateDom(c) }

\* Column sets of the files app.py is pointed at: the one it is written for
\* (nba_all_elo.csv: year_id, date_game as M/D/YYYY, fran_id, opp_fran,
\* is_playoffs, game_result, pts, opp_pts), that file with ISO dates, and with
\* one role missing.
AppCols ==
  { Cols("mdy", TRUE, "pair", "is_playoffs", TRUE, "none", "other", TRUE),
    Cols("iso", TRUE, "pair", "is_playoffs", TRUE, "none", "other", TRUE),
    Cols("mdy", FALSE, "pair", "is_playoffs", TRUE, "none", "other", TRUE),
    Cols("iso", FALSE, "pair", "is_playoffs", TRUE, "none", "other", TRUE),
    Cols("none", TRUE, "pair", "is_playoffs", TRUE, "none", "other", TRUE),
    Cols("none", FALSE, "pair", "is_playoffs", TRUE, "none", "other", TRUE),
    Cols("iso", TRUE, "none", "is_playoffs", TRUE, "none", "other", TRUE),
    Cols("iso", TRUE, "pair", "none", TRUE, "none", "other", TRUE),
    Cols("iso", TRUE, "pair", "is_playoffs", FALSE, "none", "other", TRUE),
    Cols("iso", TRUE, "pair", "is_playoffs", TRUE, "none", "other", FALSE) }

\* Column sets of the files streamilt.py is pointed at: the schema variants its
\* branches distinguish.
StreamiltCols ==
  { Cols("iso", FALSE, "pair", "is_playoffs", TRUE, "none", "date", FALSE),
    Cols("mdy", FALSE, "pair", "is_playoffs", TRUE, "none", "date", FALSE),
    Cols("iso", FALSE, "pair", "other", TRUE, "none", "date", FALSE),
    Cols("iso", FALSE, "pair", "none", TRUE, "none", "date", FALSE),
    Cols("iso", FALSE, "none", "is_playoffs", TRUE, "none", "date", FALSE),
    Cols("iso", FALSE, "other", "none", TRUE, "none", "date", FALSE),
    Cols("iso", FALSE, "team1", "none", TRUE, "none", "date", FALSE),
    Cols("iso", FALSE, "team1", "none", FALSE, "pair", "date", FALSE),
    Cols("iso", FALSE, "pair", "none", FALSE, "pair", "date", FALSE),
    Cols("iso", FALSE, "pair", "none", FALSE, "other", "date", FALSE),
    Cols("iso", FALSE, "pair", "is_playoffs", FALSE, "none", "date", FALSE),
    Cols("iso", FALSE, "none", "none", FALSE, "pair", "date", FALSE),
    Cols("iso", FALSE, "none", "none", FALSE, "none", "date", FALSE),
    Cols("none", TRUE, "pair", "is_playoffs", TRUE, "none", "year", FALSE),
    Cols("none", TRUE, "pair", "is_playoffs", TRUE, "none", "team1", FALSE),
    Cols("none", FALSE, "pair", "is_playoffs", TRUE, "none", "team1", FALSE) }

ColsOf(v) == IF v = "app" THEN AppCols ELSE StreamiltCols

NoCols == Cols("none", FALSE, "none", "none", FALSE, "none", "other", FALSE)

(***************************************************************************)
(* load_data: the table read_csv returns, with the year column derived     *)
(* from the date column (app.py only when year_id is missing, streamilt.py *)
(* whenever a date column exists).  app.py also replaces the date column   *)
(* by its parsed values when it derives the year; streamilt.py leaves the  *)
(* date column as text.                                                    *)
(***************************************************************************)
DerivesYear(v, c) ==
  IF v = "app" THEN ~c.year /\ HasDate(c) ELSE HasDate(c)

LoadData(v, src) ==
  [cols |-> [src.cols EXCEPT
               !.year = src.cols.year \/ DerivesYear(v, src.cols),
               !.date = IF v = "app" /\ DerivesYear(v, src.cols)
                        THEN "datetime" ELSE src.cols.date],
   rows |-> [i \in 1..Len(src.rows) |->
               IF DerivesYear(v, src.cols)
               THEN [src.rows[i] EXCEPT !.year = YearOf(src.rows[i].date)]
               ELSE src.rows[i]]]

\* The widgets' option lists.
YearOptions(df) == {df.rows[i].year : i \in 1..Len(df.rows)}

\* app.py reads fran_id and opp_fran; streamilt.py reads team1 and team2 or,
\* without that pair, every column whose name contains 'team'.
TeamOptions(v, df) ==
  IF df.cols.teams = "pair" \/ (v = "streamilt" /\ df.cols.teams = "other")
  THEN {df.rows[i].team1 : i \in 1..Len(df.rows)} \cup
       {df.rows[i].team2 : i \in 1..Len(df.rows)}
  ELSE IF v = "streamilt" /\ df.cols.teams = "team1"
  THEN {df.rows[i].team1 : i \in 1..Len(df.rows)}
  ELSE {}

GameTypeOptions(v, df) ==
  IF v = "app" \/ df.cols.playoffs # "none"
  THEN {"Regular", "Playoff", "Both"}
  ELSE {"Both"}

\* st.selectbox over no options returns None.
PickFrom(S) == IF S = {} THEN {NoneSel} ELSE S

NoSelection == [year |-> NoInt, team |-> NoneSel, game_type |-> "Both"]

\* df['year'] (df['year_id']) raises KeyError before any widget is read.
YearSelectFails(df) == ~df.cols.year

\* The script stops in the widgets when a column they read is missing: at the
\* year selector, or in app.py at the team list, after the year was selected.
WidgetsFail(v, df) ==
  \/ YearSelectFails(df)
  \/ v = "app" /\ df.cols.teams # "pair"

Selections(v, df) ==
  IF YearSelectFails(df) THEN {NoSelection}
  ELSE IF WidgetsFail(v, df)
  THEN { [NoSelection EXCEPT !.year = y] : y \in YearOptions(df) }
  ELSE { [year |-> y, team |-> t, game_type |-> g] :
           <<y, t, g>> \in YearOptions(df) \X PickFrom(TeamOptions(v, df))
                            \X GameTypeOptions(v, df) }

(***************************************************************************)
(* Rows of the working frame: a row of the table with its index label (its *)
(* position in the loaded table), the derived label and the game number.   *)
(***************************************************************************)
Tag(r, i) ==
  [idx |-> i, date |-> r.date, year |-> r.year, team1 |-> r.team1, team2 |-> r.team2,
   is_playoffs |-> r.is_playoffs, game_result |-> r.game_result,
   score1 |-> r.score1, score2 |-> r.score2, label |-> NoStr, game_number |-> 0]

Tagged(rows) == [i \in 1..Len(rows) |-> Tag(rows[i], i)]

\* df[mask]: the rows the mask keeps, as a new frame in the table's order.
InvolvesTeam(r, t) == r.team1 = t \/ r.team2 = t

TeamYearFilter(rows, s) ==
  LET Keep(r) == r.year = s.year /\ InvolvesTeam(r, s.team)
  IN SelectSeq(Tagged(rows), Keep)

YearFilter(rows, s) ==
  LET Keep(r) == r.year = s.year
  IN SelectSeq(Tagged(rows), Keep)

GameTypeFilter(f, g) ==
  LET Playoff(r) == r.is_playoffs = 1
      Regular(r) == r.is_playoffs = 0
  IN IF g = "Playoff" THEN SelectSeq(f, Playoff) ELSE SelectSeq(f, Regular)

(***************************************************************************)
(* DataFrame.sort_values(column) with its default kind='quicksort': the    *)
(* rows in ascending key order; the order of rows with equal keys is not   *)
(* specified, so every such arrangement is an outcome.                     *)
(***************************************************************************)
Perms(n) == {p \in [1..n -> 1..n] : \A i, j \in 1..n : i # j => p[i] # p[j]}

\* key[i] is the value of the sort column in row i of f.
SortValues(f, key) ==
  { [i \in 1..Len(f) |-> f[p[i]]] :
      p \in {q \in Perms(Len(f)) :
               \A i \in 1..(Len(f) - 1) : key[q[i]] <= key[q[i + 1]]} }

\* The order of the dates' text in a column written M/D/YYYY, for the dates
\* 1: "2/1/2015", 2: "11/1/2015", 3: "1/5/2016" (as Python orders strings:
\* "1/5/2016" < "11/1/2015" < "2/1/2015").  ISO text orders as the dates do.
TextRank(fmt, d) ==
  IF fmt = "mdy" THEN (CASE d = 1 -> 3 [] d = 2 -> 2 [] OTHER -> 1) ELSE d

\* The sort key of the date column: its values once parsed, its text otherwise.
DateKey(c, r) == IF c.date = "datetime" THEN r.date ELSE TextRank(c.date, r.date)

\* The order of the team identifiers as Python orders strings.
TeamRank(t) == CASE t = "A" -> 1 [] t = "B" -> 2 [] t = "C" -> 3 [] OTHER -> 4

FirstColumnKey(c, r) == IF c.first = "team1" THEN TeamRank(r.team1) ELSE r.year

\* filtered_df['game_number'] = range(1, len(filtered_df) + 1)
Number(f) == [i \in 1..Len(f) |-> [f[i] EXCEPT !.game_number = i]]

\* The selected team's label for a row.
Invert(code) == IF code = "L" THEN "W" ELSE "L"

TeamResult(r, t) == IF r.team1 = t THEN r.game_result ELSE Invert(r.game_result)

\* Mutant: a game with equal scores counted as a win.
ScoreResultTieWins(r, t) ==
  IF \/ r.team1 = t /\ r.score1 >= r.score2
     \/ r.team2 = t /\ r.score2 >= r.score1
  THEN "W" ELSE "L"

ScoreResult(r, t) ==
  IF \/ r.team1 = t /\ r.score1 > r.score2
     \/ r.team2 = t /\ r.score2 > r.score1
  THEN "W" ELSE "L"

(***************************************************************************)
(* The cumulative series of one result code: the rows with that label,     *)
(* sorted by game number, counted 1, 2, ...                                *)
(***************************************************************************)
GameNumberKey(r) == r.game_number

\* Mutant: the count taken over the whole game log instead of the subsequence.
CumulativeOverLog(f, code) ==
  LET Has(r) == r.label = code
      sub == SelectSeq(f, Has)
  IN [i \in 1..Len(sub) |-> [game_number |-> sub[i].game_number,
                             count |-> sub[i].game_number]]

Cumulative(f, code) ==
  LET Has(r) == r.label = code
      sub == SelectSeq(f, Has)
      srt == CHOOSE t \in SortValues(sub, [i \in 1..Len(sub) |-> GameNumberKey(sub[i])]) : TRUE
  IN [i \in 1..Len(sub) |-> [game_number |-> srt[i].game_number, count |-> i]]

CountOf(f, code) ==
  LET Has(r) == r.label = code
  IN Len(SelectSeq(f, Has))

(***************************************************************************)
(* n/total*100 is computed in IEEE doubles: the quotient is rounded to 53  *)
(* bits, then the product.  The sign of the double minus the exact value   *)
(* 100n/total, for 0 < n <= total, from the low bits and the remainder of  *)
(* the 53-bit quotient:                                                    *)
(*   e       n * 2^e / total is in [1, 2)                                  *)
(*   R       n * 2^(52+e) mod 256 * total: the low 8 bits of the quotient  *)
(*           (R \div total) and its remainder (R % total)                  *)
(*   rho     the rounded quotient is n/total - rho / (total * 2^(52+e))    *)
(*   t       the bits the product by 100 drops: 7 when it has 60 bits      *)
(*   eps     the rounded product is 100 * quotient + eps / 2^(52+e)        *)
(***************************************************************************)
RECURSIVE ShiftMod(_, _, _)
ShiftMod(n, k, m) == IF k = 0 THEN n % m ELSE (2 * ShiftMod(n, k - 1, m)) % m

RECURSIVE Exponent(_, _)
Exponent(n, total) == IF n >= total THEN 0 ELSE 1 + Exponent(2 * n, total)

DoubleMinusExact(n, total) ==
  LET e == Exponent(n, total)
      R == ShiftMod(n, 52 + e, 256 * total)
      qlow == R \div total
      r1 == R % total
      up1 == 2 * r1 > total \/ (2 * r1 = total /\ qlow % 2 = 1)
      mlow == (qlow + (IF up1 THEN 1 ELSE 0)) % 256
      rho == IF up1 THEN r1 - total ELSE r1
      upper == \/ 25 * n * 2^e > 32 * total
               \/ 25 * n * 2^e = 32 * total /\ rho < 0
      t == IF upper THEN 7 ELSE 6
      low == (100 * mlow) % 2^t
      bit == ((100 * mlow) \div 2^t) % 2
      up2 == low > 2^(t - 1) \/ (low = 2^(t - 1) /\ bit = 1)
      eps == IF up2 THEN 2^t - low ELSE 0 - low
      v == eps * total - 100 * rho
  IN IF v > 0 THEN 1 ELSE IF v < 0 THEN 0 - 1 ELSE 0

\* Mutant: the percentage cut to one decimal instead of rounded.
PercentTruncated(n, total) == (1000 * n) \div total

\* f"{(n/total*100):.1f}" in tenths of a percent: the double, rounded to one
\* decimal half to even.  The double and the exact share round alike unless
\* the exact share lies midway between two tenths.
Percent(n, total) ==
  LET q == (1000 * n) \div total
      r == (1000 * n) % total
  IN IF 2 * r > total THEN q + 1
     ELSE IF 2 * r < total THEN q
     ELSE IF DoubleMinusExact(n, total) > 0 THEN q + 1
     ELSE IF DoubleMinusExact(n, total) < 0 THEN q
     ELSE IF q % 2 = 1 THEN q + 1 ELSE q

(***************************************************************************)
(* What one run has produced.  status: "ok" (ran to its last line),        *)
(* "loaderror" (load_data raised, caught at the try), "exception" (an      *)
(* uncaught exception stopped the script; what was computed before it      *)
(* stays).                                                                 *)
(***************************************************************************)
Blank ==
  [status |-> "ok", exc |-> "none", filtered |-> <<>>, wins |-> <<>>, losses |-> <<>>,
   chart |-> "none", pie |-> "none", total |-> NoInt, pct |-> <<>>, stats |-> "none",
   msgs |-> {}]

Raise(o, e) == [o EXCEPT !.status = "exception", !.exc = e]

\* The win/loss distribution column of both scripts.
Distribution(o, f, hasLabels) ==
  IF f # <<>> /\ hasLabels
  THEN LET w == CountOf(f, "W")
           l == CountOf(f, "L")
       IN IF w + l > 0
          THEN [o EXCEPT !.pie = "pie", !.total = w + l,
                         !.pct = <<Percent(w, w + l), Percent(l, w + l)>>]
          ELSE [o EXCEPT !.pie = "noresults", !.total = w + l]
  ELSE [o EXCEPT !.pie = "nodata"]

(***************************************************************************)
(* app.py, from the filters to the footer.                                 *)
(***************************************************************************)
AppLineChart(o, f) ==
  IF f # <<>>
  THEN [o EXCEPT !.filtered = f, !.wins = Cumulative(f, "W"),
                 !.losses = Cumulative(f, "L"), !.chart = "plot"]
  ELSE [o EXCEPT !.filtered = f, !.chart = "nodata"]

AppStats(c, o, f, s) ==
  IF f = <<>> THEN o
  ELSE IF ~c.pts THEN Raise(o, "KeyError")
  ELSE IF (\E i \in 1..Len(f) : f[i].team1 = s.team) /\ ~HasDate(c)
       THEN Raise([o EXCEPT !.stats = "metrics"], "KeyError")
  ELSE [o EXCEPT !.stats = "metrics"]

AppRender(c, f, s) ==
  AppStats(c, Distribution(AppLineChart(Blank, f), f, TRUE), f, s)

\* filtered_df.apply(..., axis=1) and the assignment of its result.  Over an
\* empty frame apply calls the lambda once on a row of NaN indexed by the
\* columns (pandas 1.5 and later): with a game_result column that yields a
\* scalar and apply returns an empty Series; without one the lambda raises
\* KeyError, apply returns the empty frame, and assigning a frame to the single
\* column team_result raises ValueError.  (Before pandas 1.5 the frame came back
\* in both cases.)
AppLabel(c, f, s) ==
  IF f = <<>>
  THEN IF c.result THEN AppRender(c, f, s) ELSE Raise(Blank, "ValueError")
  ELSE IF ~c.result THEN Raise(Blank, "KeyError")
  ELSE AppRender(c, Number([i \in 1..Len(f) |->
                  [f[i] EXCEPT !.label = TeamResult(f[i], s.team)]]), s)

AppSort(c, f) ==
  IF HasDate(c) THEN SortValues(f, [i \in 1..Len(f) |-> DateKey(c, f[i])]) ELSE {f}

RunApp(df, s) ==
  LET c == df.cols
  IN IF WidgetsFail("app", df) THEN {Raise(Blank, "KeyError")}
     ELSE IF s.game_type # "Both" /\ c.playoffs # "is_playoffs"
          THEN {Raise(Blank, "KeyError")}
     ELSE LET f0 == TeamYearFilter(df.rows, s)
              f1 == IF s.game_type # "Both" THEN GameTypeFilter(f0, s.game_type) ELSE f0
          IN {AppLabel(c, f2, s) : f2 \in AppSort(c, f1)}

(***************************************************************************)
(* streamilt.py, from the filters to the footer.                           *)
(***************************************************************************)
StreamiltFilter(df, s) ==
  LET c == df.cols
      f0 == IF c.teams = "pair" THEN TeamYearFilter(df.rows, s)
            ELSE YearFilter(df.rows, s)
  IN IF c.playoffs = "is_playoffs" /\ s.game_type # "Both"
     THEN GameTypeFilter(f0, s.game_type) ELSE f0

StreamiltMsgs(c, f) ==
  (IF c.teams = "none" THEN {"no_team_columns"} ELSE {}) \cup
  (IF c.teams # "pair" THEN {"no_team_filter"} ELSE {}) \cup
  (IF c.playoffs = "none" THEN {"no_playoff_column"} ELSE {}) \cup
  (IF f # <<>> /\ ~c.result /\ c.scores = "other" THEN {"guessed_score_columns"} ELSE {}) \cup
  (IF f # <<>> /\ ~c.result /\ c.scores = "none" THEN {"no_score_columns"} ELSE {})

\* The game_result column after lines 94-114, for a non-empty frame.
GameResult(c, r, t) ==
  IF c.result THEN r.game_result
  ELSE IF c.scores = "pair" THEN ScoreResult(r, t)
  ELSE "Unknown"

StreamiltSort(c, f) ==
  LET Key(r) == IF HasDate(c) THEN DateKey(c, r) ELSE FirstColumnKey(c, r)
  IN SortValues(f, [i \in 1..Len(f) |-> Key(f[i])])

StreamiltLineChart(o, f, hasLabels) ==
  IF f # <<>> /\ hasLabels
  THEN LET w == Cumulative(f, "W")
           l == Cumulative(f, "L")
       IN [o EXCEPT !.filtered = f, !.wins = w, !.losses = l,
                    !.chart = IF w = <<>> /\ l = <<>> THEN "noplot" ELSE "plot"]
  ELSE [o EXCEPT !.filtered = f, !.chart = "nodata"]

StreamiltRender(c, f, hasLabels, msgs) ==
  Distribution(StreamiltLineChart([Blank EXCEPT !.msgs = msgs], f, hasLabels), f, hasLabels)

\* The score lambda reads row['team1'], and row['team2'] unless the first
\* disjunct already holds: KeyError on the first row that reads a missing one.
ScoreLabelFails(c, f, t) ==
  \/ c.teams \in {"other", "none"}
  \/ c.teams = "team1" /\
       \E i \in 1..Len(f) : ~(f[i].team1 = t /\ f[i].score1 > f[i].score2)

RunStreamilt(df, s) ==
  LET c == df.cols
  IN IF WidgetsFail("streamilt", df) THEN {Raise(Blank, "KeyError")}
     ELSE LET f1 == StreamiltFilter(df, s)
              msgs == StreamiltMsgs(c, f1)
          IN IF f1 # <<>> /\ ~c.result /\ c.scores = "pair"
                         /\ ScoreLabelFails(c, f1, s.team)
             THEN {Raise([Blank EXCEPT !.msgs = msgs], "KeyError")}
             ELSE LET f2 == [i \in 1..Len(f1) |->
                               [f1[i] EXCEPT !.label = GameResult(c, f1[i], s.team)]]
                  IN {StreamiltRender(c, Number(f3), f1 # <<>> \/ c.result, msgs) :
                        f3 \in StreamiltSort(c, f2)}

Run(v, df, s) == IF v = "app" THEN RunApp(df, s) ELSE RunStreamilt(df, s)

(***************************************************************************)
(* State.  variant and source are fixed; cache is st.cache_data's entry    *)
(* for load_data; reads counts the tables read_csv has returned; hit tells *)
(* whether the last rerun was served from the cache; sel and out are what  *)
(* the last rerun selected and produced.                                   *)
(***************************************************************************)
VARIABLES variant, source, cache, reads, hit, sel, out

vars == <<variant, source, cache, reads, hit, sel, out>>

NoCache == [loaded |-> FALSE, df |-> [cols |-> NoCols, rows |-> <<>>]]

Init ==
  /\ variant \in {"app", "streamilt"}
  /\ \/ source = [readable |-> FALSE, cols |-> NoCols, rows |-> <<>>]
     \/ \E c \in ColsOf(variant) : \E n \in 1..MaxRows : \E t \in [1..n -> RowDom(c)] :
          source = [readable |-> TRUE, cols |-> c, rows |-> t]
  /\ cache = NoCache
  /\ reads = 0
  /\ hit = FALSE
  /\ sel = NoSelection
  /\ out = [Blank EXCEPT !.status = "init"]

\* Mutant: load_data without the st.cache_data decorator.
NeverCached == FALSE

\* st.cache_data: a hit returns the stored table and load_data does not run.
CacheHit == cache.loaded

\* Mutant: no data_loaded guard, the dashboard rendered over an empty frame.
LoadFailedFallsThrough ==
  [Blank EXCEPT !.status = "loaderror", !.msgs = {"load_error"},
                !.chart = "nodata", !.pie = "nodata"]

\* What the script shows when load_data raised: the two messages of the except
\* branch and the one of the final else; nothing of the dashboard.
LoadFailed ==
  [Blank EXCEPT !.status = "loaderror", !.msgs = {"load_error", "unable_to_load"}]

\* Mutant: the script filters, sorts and renumbers the cached table itself.
TableWrittenBack(df, o) ==
  [df EXCEPT !.rows = [i \in 1..Len(o.filtered) |-> df.rows[o.filtered[i].idx]]]

\* The cached table after a rerun: the script works on df[mask] (and .copy()),
\* a new frame, so its column assignments and sorts leave the table alone.
TableAfterRun(df, o) == df

\* A rerun whose load_data call raises: the except branch, then the final else.
RerunLoadError ==
  /\ ~CacheHit
  /\ ~source.readable
  /\ out' = LoadFailed
  /\ sel' = NoSelection
  /\ hit' = FALSE
  /\ UNCHANGED <<variant, source, cache, reads>>

\* A rerun with the table loaded now (a miss) or earlier (a hit).
RerunLoaded ==
  /\ CacheHit \/ (source.readable /\ reads < MaxReads)
  /\ LET df == IF CacheHit THEN cache.df ELSE LoadData(variant, source)
     IN /\ reads' = IF CacheHit THEN reads ELSE reads + 1
        /\ hit' = CacheHit
        /\ \E s \in Selections(variant, df) :
             /\ sel' = s
             /\ \E o \in Run(variant, df, s) :
                  /\ out' = o
                  /\ cache' = [loaded |-> TRUE, df |-> TableAfterRun(df, o)]
  /\ UNCHANGED <<variant, source>>

Next == RerunLoadError \/ RerunLoaded

Spec == Init /\ [][Next]_vars

(***************************************************************************)
(* Vocabulary of the claims.                                               *)
(***************************************************************************)
\* The last rerun got past the load step.
Ran == out.status \in {"ok", "exception"}

\* The index labels of the rows of a working frame.
Indices(f) == {f[i].idx : i \in 1..Len(f)}

\* The loaded rows a selection asks for: year, team in either role, game type.
Matches(r, s) ==
  /\ r.year = s.year
  /\ r.team1 = s.team \/ r.team2 = s.team
  /\ s.game_type = "Playoff" => r.is_playoffs = 1
  /\ s.game_type = "Regular" => r.is_playoffs = 0

Matching(df, s) == {i \in 1..Len(df.rows) : Matches(df.rows[i], s)}

\* The rows of a frame with a determined (W or L) label.
Determined(f) == {i \in 1..Len(f) : f[i].label \in {"W", "L"}}

\* The filter and labelling steps of the last rerun completed.
Labelled == out.chart # "none"

(***************************************************************************)
(* C1: for every row of the filtered log with a direct result code, the    *)
(* selected team's label is the stored code when the team is the row's     *)
(* primary team and the inverted code when it is the opponent, in both     *)
(* dashboards (on tables that have the two team columns).                  *)
(***************************************************************************)
C1_PerspectiveLabel ==
  (Labelled /\ cache.df.cols.result /\ cache.df.cols.teams = "pair") =>
    \A i \in 1..Len(out.filtered) :
      LET r == out.filtered[i]
      IN /\ r.team1 = sel.team => r.label = r.game_result
         /\ (r.team1 # sel.team /\ r.team2 = sel.team) => r.label = Invert(r.game_result)

(***************************************************************************)
(* C2: the filtered log holds exactly the loaded rows of the selected year *)
(* in which the selected team is primary or opponent, restricted by the    *)
(* playoff flag when the game type is not Both (stated for tables that     *)
(* have the two team columns, so that every row has both roles).           *)
(***************************************************************************)
C2_FilteredExactly ==
  (Labelled /\ cache.df.cols.teams = "pair") =>
    /\ Indices(out.filtered) = Matching(cache.df, sel)
    /\ Cardinality(Indices(out.filtered)) = Len(out.filtered)

(***************************************************************************)
(* C3: the cumulative win counts, in ascending game-number order, are      *)
(* 1..W over exactly the win-labelled games, the cumulative loss counts    *)
(* 1..L over exactly the loss-labelled games, and W + L is the number of   *)
(* games with a determined result; this holds after every rerun, so the    *)
(* counts restart at 1 on every selection.                                 *)
(***************************************************************************)
SeriesOf(series, f, code) ==
  /\ \A i \in 1..Len(series) : series[i].count = i
  /\ \A i \in 1..(Len(series) - 1) : series[i].game_number < series[i + 1].game_number
  /\ {series[i].game_number : i \in 1..Len(series)} =
       {f[i].game_number : i \in {j \in 1..Len(f) : f[j].label = code}}

C3_CumulativeCounts ==
  /\ SeriesOf(out.wins, out.filtered, "W")
  /\ SeriesOf(out.losses, out.filtered, "L")
  /\ Len(out.wins) + Len(out.losses) = Cardinality(Determined(out.filtered))

\* A win counted 1 at game number 2, after a loss counted 1 at game number 1,
\* in a rerun that followed an earlier one.
C3_Witness ==
  /\ hit
  /\ Len(out.wins) = 1 /\ Len(out.losses) = 1
  /\ out.wins[1].game_number = 2 /\ out.wins[1].count = 1
  /\ out.losses[1].game_number = 1

(***************************************************************************)
(* The win/loss distribution on its own: Distribution applied once to each *)
(* frame of w wins, l losses and u undetermined rows, and to the empty     *)
(* frame.                                                                  *)
(***************************************************************************)
LabelledFrame(w, l, u) ==
  [i \in 1..(w + l + u) |->
     [idx |-> i, date |-> NoInt, year |-> NoInt, team1 |-> NoStr, team2 |-> NoStr,
      is_playoffs |-> NoInt, game_result |-> NoStr, score1 |-> NoInt, score2 |-> NoInt,
      label |-> IF i <= w THEN "W" ELSE IF i <= w + l THEN "L" ELSE "Unknown",
      game_number |-> i]]

DistributionInit ==
  /\ variant \in {"app", "streamilt"}
  /\ source = [readable |-> FALSE, cols |-> NoCols, rows |-> <<>>]
  /\ cache = NoCache
  /\ reads = 0
  /\ hit = FALSE
  /\ sel = NoSelection
  /\ out = [Blank EXCEPT !.status = "init"]

ApplyDistribution ==
  /\ out.status = "init"
  /\ \E w, l \in 0..MaxGames : \E u \in 0..1 : \E hasLabels \in BOOLEAN :
       /\ w + l <= MaxGames
       /\ hasLabels \/ (variant = "streamilt" /\ w + l + u = 0)
       /\ out' = Distribution([Blank EXCEPT !.filtered = LabelledFrame(w, l, u)],
                              LabelledFrame(w, l, u), hasLabels)
  /\ UNCHANGED <<variant, source, cache, reads, hit, sel>>

SpecDistribution == DistributionInit /\ [][ApplyDistribution]_vars

(***************************************************************************)
(* C4: percentages are computed exactly when wins + losses > 0; they are   *)
(* then the two shares rounded to one decimal and sum to 100.0 within a    *)
(* rounding step; with wins + losses = 0 nothing is divided and the        *)
(* distribution shows a no-results (or no-data) state.                     *)
(***************************************************************************)
Abs(x) == IF x < 0 THEN 0 - x ELSE x

LabelCount(f, code) == Cardinality({i \in 1..Len(f) : f[i].label = code})

C4_Percentages ==
  LET w == LabelCount(out.filtered, "W")
      l == LabelCount(out.filtered, "L")
  IN /\ out.pie = "none" => out.pct = <<>>
     /\ (out.pie # "none" /\ w + l = 0) =>
          out.pct = <<>> /\ out.pie \in {"noresults", "nodata"}
     /\ (out.pie # "none" /\ w + l > 0) =>
          /\ out.pie = "pie" /\ out.total = w + l /\ out.pct # <<>>
          /\ 2 * Abs(out.pct[1] * (w + l) - 1000 * w) <= w + l
          /\ 2 * Abs(out.pct[2] * (w + l) - 1000 * l) <= w + l
          /\ Abs(out.pct[1] + out.pct[2] - 1000) <= 1

\* 23 wins in 80 games: the exact shares 28.75 and 71.25 are shown as 28.7% and
\* 71.2%, the doubles being 28.749999999999996 and 71.25.
C4_Witness == out.pie = "pie" /\ out.total = 80 /\ out.pct = <<287, 712>>

(***************************************************************************)
(* C5: a valid selection that matches no row (such as Playoff when no row  *)
(* of the selected year and team has the playoff flag set) ends, without   *)
(* an error, in the no-data state with an empty game sequence, in both     *)
(* dashboards.  Stated for tables that carry every role: year, the two     *)
(* team columns, a playoff flag and a result code.                         *)
(***************************************************************************)
AllRoles(c) == c.year /\ c.teams = "pair" /\ c.playoffs # "none" /\ c.result

C5_EmptyLogNoData ==
  (Ran /\ AllRoles(cache.df.cols) /\ Matching(cache.df, sel) = {}) =>
    /\ out.status = "ok"
    /\ out.filtered = <<>>
    /\ out.chart = "nodata" /\ out.pie = "nodata"

(***************************************************************************)
(* C6: when the team columns are not resolved, or there is neither a       *)
(* result column nor the pair of score columns, the rerun completes, every *)
(* row of the log is marked Unknown and the distribution shows a           *)
(* no-results state: no exception, no win or loss label.                   *)
(***************************************************************************)
C6_UndeterminedMarker ==
  (Ran /\ cache.df.cols.year
       /\ (cache.df.cols.teams # "pair"
           \/ (~cache.df.cols.result /\ cache.df.cols.scores # "pair"))) =>
    /\ out.status = "ok"
    /\ \A i \in 1..Len(out.filtered) : out.filtered[i].label = "Unknown"
    /\ out.pie \in {"noresults", "nodata"}

(***************************************************************************)
(* C7: the source is read at most once in a process: once the table is     *)
(* cached, no rerun reads the source again.                                *)
(***************************************************************************)
C7_ReadOnce ==
  /\ reads <= 1
  /\ cache.loaded <=> reads = 1
  /\ hit => cache.loaded

\* A rerun served from the cache, after the one read.
C7_Witness == hit /\ reads = 1 /\ out.status = "ok" /\ sel.game_type = "Playoff"

(***************************************************************************)
(* C8: when the load fails, the failure is caught, the error messages are  *)
(* shown, and nothing of the dashboard is computed in that rerun.          *)
(***************************************************************************)
C8_LoadFailureStops ==
  /\ (~source.readable /\ out.status # "init") => out.status = "loaderror"
  /\ out.status = "loaderror" =>
       /\ ~source.readable /\ ~cache.loaded
       /\ {"load_error", "unable_to_load"} \subseteq out.msgs
       /\ out.filtered = <<>> /\ out.wins = <<>> /\ out.losses = <<>>
       /\ out.chart = "none" /\ out.pie = "none" /\ out.stats = "none"
       /\ out.pct = <<>> /\ out.total = NoInt
       /\ sel = NoSelection

C8_Witness == out.status = "loaderror" /\ ~source.readable

(***************************************************************************)
(* C9: no rerun changes the cached table: it keeps the rows, columns and   *)
(* values load_data returned, whatever the rerun derives, sorts or         *)
(* renumbers.                                                              *)
(***************************************************************************)
C9_TableUnchanged ==
  cache.loaded => cache.df = LoadData(variant, source)

\* A later rerun that labelled, reordered and numbered the rows of the table.
C9_Witness ==
  /\ hit /\ Len(out.filtered) = 2
  /\ out.filtered[1].idx = 2 /\ out.filtered[2].idx = 1
  /\ out.filtered[1].label \in {"W", "L"} /\ out.filtered[2].game_number = 2

(***************************************************************************)
(* C10: the filtered rows are numbered 1..n, each number once, with dates  *)
(* (as dates, not as text) non-decreasing in that order; without a date    *)
(* column the order is the source's row order: no other column puts two    *)
(* rows out of source order.  (The order of rows with equal keys is        *)
(* C10_TiesKeepSourceOrder.)                                               *)
(***************************************************************************)
C10_SequenceOrder ==
  Labelled =>
    LET f == out.filtered
        c == cache.df.cols
    IN /\ \A i \in 1..Len(f) : f[i].game_number = i
       /\ HasDate(c) => \A i, j \in 1..Len(f) : i < j => f[i].date <= f[j].date
       /\ ~HasDate(c) =>
            \A i, j \in 1..Len(f) :
              (i < j /\ f[i].idx > f[j].idx) =>
                FirstColumnKey(c, f[i]) = FirstColumnKey(c, f[j])

\* Rows with equal dates keep their source order.
C10_TiesKeepSourceOrder ==
  (Labelled /\ HasDate(cache.df.cols)) =>
    \A i, j \in 1..Len(out.filtered) :
      (i < j /\ out.filtered[i].date = out.filtered[j].date) =>
        out.filtered[i].idx < out.filtered[j].idx

(***************************************************************************)
(* The selected team's side of a row has the strictly greater score.       *)
(***************************************************************************)
SideWins(r, t) ==
  \/ r.team1 = t /\ r.score1 > r.score2
  \/ r.team1 # t /\ r.team2 = t /\ r.score2 > r.score1

(***************************************************************************)
(* C11: when the table has no result column and has score1 and score2,     *)
(* every row of the filtered log is labelled W exactly when the selected   *)
(* team's side has the strictly greater score and L otherwise; a row with  *)
(* equal scores is labelled L on either side.                              *)
(***************************************************************************)
C11_ScoreLabels ==
  (Labelled /\ ~cache.df.cols.result /\ cache.df.cols.scores = "pair"
            /\ cache.df.cols.teams = "pair") =>
    \A i \in 1..Len(out.filtered) :
      LET r == out.filtered[i]
      IN /\ r.label = (IF SideWins(r, sel.team) THEN "W" ELSE "L")
         /\ r.score1 = r.score2 => r.label = "L"

\* A tie labelled L for the team recorded second, after a win of that team.
C11_Witness ==
  /\ ~cache.df.cols.result /\ cache.df.cols.scores = "pair"
  /\ Len(out.filtered) = 2
  /\ out.filtered[1].team2 = sel.team /\ out.filtered[1].score2 > out.filtered[1].score1
  /\ out.filtered[1].label = "W"
  /\ out.filtered[2].team2 = sel.team /\ out.filtered[2].score1 = out.filtered[2].score2
  /\ out.filtered[2].label = "L"

(***************************************************************************)
(* C12: the result of a row is resolved by priority: from the result       *)
(* column when the table has one; otherwise from score1 and score2;        *)
(* otherwise, when two other columns named '...score...' exist, from the   *)
(* first two of them, with the warning shown; Unknown only when fewer than *)
(* two score columns exist.  Stated for streamilt.py on tables with        *)
(* team1/team2 and a non-empty filtered log.                               *)
(***************************************************************************)
C12_ResolutionPriority ==
  (Labelled /\ variant = "streamilt" /\ cache.df.cols.teams = "pair"
            /\ out.filtered # <<>>) =>
    LET c == cache.df.cols
    IN \A i \in 1..Len(out.filtered) :
         LET r == out.filtered[i]
             derived == IF SideWins(r, sel.team) THEN "W" ELSE "L"
         IN /\ c.result => r.label \in Codes
            /\ (~c.result /\ c.scores = "pair") => r.label = derived
            /\ (~c.result /\ c.scores = "other") =>
                 r.label = derived /\ "guessed_score_columns" \in out.msgs
            /\ (~c.result /\ c.scores = "none") => r.label = "Unknown"
====
